---- MODULE Spec2Model ----
(***************************************************************************)
(* Nelder-Mead simplex minimizer of src/src/lib/eilmer/nelmin.py:          *)
(* the class NMSimplex and the driver minimize().                          *)
(*                                                                         *)
(* Real numbers are exact rationals <<numerator, denominator>> in lowest   *)
(* terms with a positive denominator, so that equal reals are equal        *)
(* values.  Python lists/arrays are functions over 0..len-1, so that the   *)
(* indices are those of the source.                                        *)
(***************************************************************************)
EXTENDS Integers, Sequences, FiniteSets, TLC

\* ------------------------------------------------------------------ bounds
\* largest dimension N = len(x) of a run
MaxN == 2
\* largest evaluation budget maxfe passed to minimize
MaxFE == 6
\* largest n_check passed to minimize
MaxNCheck == 2
\* direct use of NMSimplex: operations are applied while nfe is below this
MaxOpsFE == 6

\* --------------------------------------------------------- exact rationals
Abs(n) == IF n < 0 THEN -n ELSE n

RECURSIVE GCD(_, _)
GCD(a, b) == IF b = 0 THEN a ELSE GCD(b, a % b)

LCM(a, b) == (a \div GCD(a, b)) * b

Rat(n, d) == LET g == GCD(Abs(n), d) IN <<n \div g, d \div g>>

Zero == Rat(0, 1)
One == Rat(1, 1)
Two == Rat(2, 1)
Half == Rat(1, 2)

RAdd(a, b) == LET d == LCM(a[2], b[2]) IN Rat(a[1] * (d \div a[2]) + b[1] * (d \div b[2]), d)
RNeg(a) == <<-a[1], a[2]>>
RSub(a, b) == RAdd(a, RNeg(b))
RMul(a, b) == LET p == Rat(a[1], b[2])
                  q == Rat(b[1], a[2])
              IN <<p[1] * q[1], p[2] * q[2]>>
RDivInt(a, n) == RMul(a, Rat(1, n))
RECURSIVE RLt(_, _)
\* a < b, by integer parts and then the reciprocals of the fractional parts
\* (no product is formed, so no intermediate value leaves the integer range)
RLt(a, b) ==
  LET fa == a[1] \div a[2]
      fb == b[1] \div b[2]
      ra == a[1] % a[2]
      rb == b[1] % b[2]
  IN IF fa # fb THEN fa < fb
     ELSE IF rb = 0 THEN FALSE
     ELSE IF ra = 0 THEN TRUE
     ELSE RLt(<<b[2], rb>>, <<a[2], ra>>)
RAbs(a) == <<Abs(a[1]), a[2]>>

\* ------------------------------------------------ lists and arrays, 0-based
Len0(a) == Cardinality(DOMAIN a)
Empty == << >>
Append0(a, e) == [i \in 0..Len0(a) |-> IF i < Len0(a) THEN a[i] ELSE e]
\* numpy.array([v]*n)
Fill(n, v) == [i \in 0..(n - 1) |-> v]

\* numpy array arithmetic: a + b, k*a
VAdd(a, b) == [j \in DOMAIN a |-> RAdd(a[j], b[j])]
VScale(k, a) == [j \in DOMAIN a |-> RMul(k, a[j])]

RECURSIVE RSum(_, _)
\* sum of a[0..n-1]
RSum(a, n) == IF n = 0 THEN Zero ELSE RAdd(RSum(a, n - 1), a[n - 1])

\* ------------------------------------------------------ objective functions
\* test_fun_1: sum((x[i] - 1)^2)
test_fun_1(x) == RSum([i \in DOMAIN x |-> RMul(RSub(x[i], One), RSub(x[i], One))], Len0(x))
\* further caller-supplied objectives: x[0]^2 + x[1] + ..., -sum(x), a
\* constant, and the non-smooth sum(|x[i] - 1/2|)
fun_mixed(x) == RAdd(RMul(x[0], x[0]), RSub(RSum(x, Len0(x)), x[0]))
fun_negsum(x) == RNeg(RSum(x, Len0(x)))
fun_flat(x) == Zero
fun_abs(x) == RSum([i \in DOMAIN x |-> RAbs(RSub(x[i], Half))], Len0(x))
\* a non-convex one, |1 - 2*sum((x[i] - 3/8)^2)|: a peak at 3/8 inside a
\* ring-shaped valley
fun_ring(x) ==
  RAbs(RSub(One, RMul(Two, RSum([i \in DOMAIN x |->
                                   RMul(RSub(x[i], Rat(3, 8)), RSub(x[i], Rat(3, 8)))], Len0(x)))))

Objectives == {"test_fun_1", "mixed", "negsum", "flat", "abs", "ring"}

\* A callable f is the function it computes, f.name, and the invocation at
\* which it raises instead of returning, f.fail_at (0: it never raises).
Callable(name, fail_at) == [name |-> name, fail_at |-> fail_at]

\* the value f(p) returns
F(f, p) ==
  CASE f.name = "test_fun_1" -> test_fun_1(p)
    [] f.name = "mixed" -> fun_mixed(p)
    [] f.name = "negsum" -> fun_negsum(p)
    [] f.name = "abs" -> fun_abs(p)
    [] f.name = "ring" -> fun_ring(p)
    [] OTHER -> fun_flat(p)

\* ----------------------------------------------------------------- NMSimplex
\* The object is a record of its attributes N, vertex_list, f_list, dx, f, nfe,
\* nrestarts, and of three history fields that the code does not hold:
\* calls (number of invocations of f so far), evals (the points f was invoked
\* on by the operation in progress) and branch (the branch the last
\* take_a_step took).
\* Arrays are mutable objects in the source.  The record also holds the
\* contents of the two arrays the constructor was handed, caller_x and
\* caller_dx, and dx_shared: self.dx is the very object the caller passed
\* (FALSE for a copy), so that an in-place write to self.dx lands in the
\* caller's array when the two are one object.

\* call with a retry: when f raises it is invoked once more, and the run goes on
call_retry(s, p) ==
  IF s.calls + 1 = s.f.fail_at
  THEN [s EXCEPT !.calls = @ + 2, !.evals = Append(Append(@, p), p)]
  ELSE [s EXCEPT !.calls = @ + 1, !.evals = Append(@, p)]

\* self.f(p) is invoked, and raises if this is the invocation at which f fails
call(s, p) ==
  IF s.calls + 1 = s.f.fail_at
  THEN [s EXCEPT !.calls = @ + 1, !.evals = Append(@, p), !.raised = "ObjectiveFunctionFailure"]
  ELSE [s EXCEPT !.calls = @ + 1, !.evals = Append(@, p)]

\* an exception is propagating out of the method
raising(s) == s.raised # "none"
\* start of a method: the history of the operation in progress is empty
enter(s) == [s EXCEPT !.evals = << >>, !.branch = "none"]

RECURSIVE init_loop(_, _, _, _)
\* for i in range(self.N + 1): ... of __init__; dx[i-1] raises IndexError.
\* p = x.copy() is a new object: the write p[i-1] += dx[i-1] lands in p alone
init_loop(s, x, dx, i) ==
  IF i > s.N THEN s
  ELSE IF i >= 1 /\ (i - 1) \notin DOMAIN dx THEN [s EXCEPT !.raised = "IndexError"]
  ELSE LET p == IF i >= 1 THEN [x EXCEPT ![i - 1] = RAdd(@, dx[i - 1])] ELSE x
           s1 == [s EXCEPT !.vertex_list = Append0(@, p)]
           s2 == call(s1, p)
           s3 == [s2 EXCEPT !.f_list = Append0(@, F(s.f, p))]
           s4 == [s3 EXCEPT !.nfe = @ + 1]
       IN IF raising(s2) THEN s2 ELSE init_loop(s4, x, dx, i + 1)

\* NMSimplex_init with "self.dx = dx" in place of "self.dx = dx.copy()"
NMSimplex_init_shared(x, dx, f) ==
  init_loop([N |-> Len0(x), vertex_list |-> Empty, f_list |-> Empty, dx |-> dx,
             f |-> f, nfe |-> 0, nrestarts |-> 0,
             calls |-> 0, evals |-> << >>, branch |-> "none", raised |-> "none",
             caller_x |-> x, caller_dx |-> dx, dx_shared |-> TRUE],
            x, dx, 0)

\* NMSimplex(x, dx, f); self.dx = dx.copy() is a new object
NMSimplex_init(x, dx, f) ==
  init_loop([N |-> Len0(x), vertex_list |-> Empty, f_list |-> Empty, dx |-> dx,
             f |-> f, nfe |-> 0, nrestarts |-> 0,
             calls |-> 0, evals |-> << >>, branch |-> "none", raised |-> "none",
             caller_x |-> x, caller_dx |-> dx, dx_shared |-> FALSE],
            x, dx, 0)

\* get_vertex that returns the vertex of slot 0 whatever the index
get_vertex_first(s, i) == s.vertex_list[0]

get_vertex(s, i) == s.vertex_list[i]

\* replace_vertex without "self.vertex_list[i] = x.copy()"
replace_vertex_value_only(s, i, x, fvalue) == [s EXCEPT !.f_list[i] = fvalue]

replace_vertex(s, i, x, fvalue) == [s EXCEPT !.vertex_list[i] = x, !.f_list[i] = fvalue]

RECURSIVE lowest_scan_last(_, _, _, _, _)
\* lowest_scan with "<=" in place of "<": among equal values the last index wins
lowest_scan_last(s, exclude, i, indx, lowest_f_value) ==
  IF i > s.N THEN indx
  ELSE IF i = exclude THEN lowest_scan_last(s, exclude, i + 1, indx, lowest_f_value)
  ELSE IF ~RLt(lowest_f_value, s.f_list[i]) THEN lowest_scan_last(s, exclude, i + 1, i, s.f_list[i])
  ELSE lowest_scan_last(s, exclude, i + 1, indx, lowest_f_value)

RECURSIVE lowest_scan(_, _, _, _, _)
lowest_scan(s, exclude, i, indx, lowest_f_value) ==
  IF i > s.N THEN indx
  ELSE IF i = exclude THEN lowest_scan(s, exclude, i + 1, indx, lowest_f_value)
  ELSE IF RLt(s.f_list[i], lowest_f_value) THEN lowest_scan(s, exclude, i + 1, i, s.f_list[i])
  ELSE lowest_scan(s, exclude, i + 1, indx, lowest_f_value)

lowest(s, exclude) ==
  LET indx == IF exclude = 0 THEN 1 ELSE 0
  IN lowest_scan(s, exclude, 0, indx, s.f_list[indx])

RECURSIVE highest_scan(_, _, _, _, _)
highest_scan(s, exclude, i, indx, highest_f_value) ==
  IF i > s.N THEN indx
  ELSE IF i = exclude THEN highest_scan(s, exclude, i + 1, indx, highest_f_value)
  ELSE IF RLt(highest_f_value, s.f_list[i]) THEN highest_scan(s, exclude, i + 1, i, s.f_list[i])
  ELSE highest_scan(s, exclude, i + 1, indx, highest_f_value)

highest(s, exclude) ==
  LET indx == IF exclude = 0 THEN 1 ELSE 0
  IN highest_scan(s, exclude, 0, indx, s.f_list[indx])

\* f_statistics: the mean, and the square s/N of the standard deviation
\* (std_dev = sqrt(s/N) is not rational; std_dev < tol is decided on the square)
f_statistics(s) ==
  LET mean == RDivInt(RSum(s.f_list, s.N + 1), s.N + 1)
      sq == [i \in 0..s.N |-> RMul(RSub(s.f_list[i], mean), RSub(s.f_list[i], mean))]
  IN [mean |-> mean, var |-> RDivInt(RSum(sq, s.N + 1), s.N)]

\* stddev < tol, for f_statistics' result st
stddev_lt(st, tol) == RLt(Zero, tol) /\ RLt(st.var, RMul(tol, tol))

RECURSIVE centroid_sum(_, _, _, _)
\* for i in range(self.N + 1): if i == exclude: continue; xmid += vertex_list[i]
centroid_sum(s, exclude, i, xmid) ==
  IF i > s.N THEN xmid
  ELSE IF i = exclude THEN centroid_sum(s, exclude, i + 1, xmid)
  ELSE centroid_sum(s, exclude, i + 1, VAdd(xmid, s.vertex_list[i]))

centroid(s, exclude) == VScale(Rat(1, s.N), centroid_sum(s, exclude, 0, Fill(s.N, Zero)))

RECURSIVE contract_loop_uncounted(_, _, _, _)
\* contract_loop without "self.nfe += 1"
contract_loop_uncounted(s, i_con, p_con, i) ==
  IF i > s.N THEN s
  ELSE IF i = i_con THEN contract_loop_uncounted(s, i_con, p_con, i + 1)
  ELSE LET p == VAdd(VScale(Half, s.vertex_list[i]), VScale(Half, p_con))
           s1 == call(s, p)
           s2 == [s1 EXCEPT !.f_list[i] = F(s.f, p)]
           s4 == [s2 EXCEPT !.vertex_list[i] = p]
       IN contract_loop_uncounted(s4, i_con, p_con, i + 1)

RECURSIVE contract_loop_stale(_, _, _, _)
\* contract_loop that moves the vertices and keeps their old values
contract_loop_stale(s, i_con, p_con, i) ==
  IF i > s.N THEN s
  ELSE IF i = i_con THEN contract_loop_stale(s, i_con, p_con, i + 1)
  ELSE LET p == VAdd(VScale(Half, s.vertex_list[i]), VScale(Half, p_con))
           s1 == call(s, p)
           s3 == [s1 EXCEPT !.nfe = @ + 1]
           s4 == [s3 EXCEPT !.vertex_list[i] = p]
       IN contract_loop_stale(s4, i_con, p_con, i + 1)

RECURSIVE contract_loop_all(_, _, _, _)
\* contract_loop without "if i == i_con: continue": slot i_con is evaluated too
contract_loop_all(s, i_con, p_con, i) ==
  IF i > s.N THEN s
  ELSE LET p == VAdd(VScale(Half, s.vertex_list[i]), VScale(Half, p_con))
           s1 == call(s, p)
           s2 == [s1 EXCEPT !.f_list[i] = F(s.f, p)]
           s3 == [s2 EXCEPT !.nfe = @ + 1]
           s4 == [s3 EXCEPT !.vertex_list[i] = p]
       IN contract_loop_all(s4, i_con, p_con, i + 1)

RECURSIVE contract_loop(_, _, _, _)
\* for i in range(self.N + 1): ... of contract_about_one_point
contract_loop(s, i_con, p_con, i) ==
  IF i > s.N THEN s
  ELSE IF i = i_con THEN contract_loop(s, i_con, p_con, i + 1)
  ELSE LET p == VAdd(VScale(Half, s.vertex_list[i]), VScale(Half, p_con))
           s1 == call(s, p)
           s2 == [s1 EXCEPT !.f_list[i] = F(s.f, p)]
           s3 == [s2 EXCEPT !.nfe = @ + 1]
           s4 == [s3 EXCEPT !.vertex_list[i] = p]
       IN IF raising(s1) THEN s1 ELSE contract_loop(s4, i_con, p_con, i + 1)

contract_about_one_point(s, i_con) == contract_loop(s, i_con, s.vertex_list[i_con], 0)

RECURSIVE test_loop_back(_, _, _, _, _)
\* test_loop whose second probe steps back by dx[j]*delta, not by twice that
test_loop_back(s, i_min, delta, f_min, j) ==
  IF j >= s.N THEN [s |-> s, is_minimum |-> TRUE]
  ELSE LET p1 == [get_vertex(s, i_min) EXCEPT ![j] = RAdd(@, RMul(s.dx[j], delta))]
           s1 == [call(s, p1) EXCEPT !.nfe = @ + 1]
           p2 == [p1 EXCEPT ![j] = RSub(@, RMul(s.dx[j], delta))]
           s2 == [call(s1, p2) EXCEPT !.nfe = @ + 1]
       IN IF RLt(F(s.f, p1), f_min) THEN [s |-> s1, is_minimum |-> FALSE]
          ELSE IF RLt(F(s.f, p2), f_min) THEN [s |-> s2, is_minimum |-> FALSE]
          ELSE test_loop_back(s2, i_min, delta, f_min, j + 1)

RECURSIVE test_loop(_, _, _, _, _)
\* for j in range(self.N): ... of test_for_minimum; the result is the simplex
\* (nfe advanced) and is_minimum (nothing is returned when f raised)
test_loop(s, i_min, delta, f_min, j) ==
  IF j >= s.N THEN [s |-> s, is_minimum |-> TRUE]
  ELSE LET p1 == [get_vertex(s, i_min) EXCEPT ![j] = RAdd(@, RMul(s.dx[j], delta))]
           c1 == call(s, p1)
           s1 == [c1 EXCEPT !.nfe = @ + 1]
           p2 == [p1 EXCEPT ![j] = RSub(@, RMul(RMul(s.dx[j], delta), Two))]
           c2 == call(s1, p2)
           s2 == [c2 EXCEPT !.nfe = @ + 1]
       IN IF raising(c1) THEN [s |-> c1, is_minimum |-> TRUE]
          ELSE IF RLt(F(s.f, p1), f_min) THEN [s |-> s1, is_minimum |-> FALSE]
          ELSE IF raising(c2) THEN [s |-> c2, is_minimum |-> TRUE]
          ELSE IF RLt(F(s.f, p2), f_min) THEN [s |-> s2, is_minimum |-> FALSE]
          ELSE test_loop(s2, i_min, delta, f_min, j + 1)

test_for_minimum(s, i_min, delta) == test_loop(s, i_min, delta, s.f_list[i_min], 0)

RECURSIVE count_better(_, _, _)
\* count_higher with the comparison turned round: the vertices better than f_refl
count_better(s, f_refl, i) ==
  IF i > s.N THEN 0
  ELSE (IF RLt(s.f_list[i], f_refl) THEN 1 ELSE 0) + count_better(s, f_refl, i + 1)

RECURSIVE count_higher(_, _, _)
\* for i in range(self.N+1): if self.f_list[i] > f_refl: count += 1
count_higher(s, f_refl, i) ==
  IF i > s.N THEN 0
  ELSE (IF RLt(f_refl, s.f_list[i]) THEN 1 ELSE 0) + count_higher(s, f_refl, i + 1)

take_a_step(s, Kreflect, Kextend, Kcontract) ==
  LET i_low == lowest(s, -1)
      i_high == highest(s, -1)
      x_high == s.vertex_list[i_high]
      f_high == s.f_list[i_high]
      x_mid == centroid(s, i_high)
      f_mid == F(s.f, x_mid)
      c1 == call(s, x_mid)
      s1 == [c1 EXCEPT !.nfe = @ + 1]
      x_refl == VAdd(VScale(RAdd(One, Kreflect), x_mid), VScale(RNeg(Kreflect), x_high))
      f_refl == F(s.f, x_refl)
      c2 == call(s1, x_refl)
      s2 == [c2 EXCEPT !.nfe = @ + 1]
      x_ext == VAdd(VScale(Kextend, x_refl), VScale(RSub(One, Kextend), x_mid))
      f_ext == F(s.f, x_ext)
      x_con == VAdd(VScale(RSub(One, Kcontract), x_mid), VScale(Kcontract, x_high))
      f_con == F(s.f, x_con)
  IN IF raising(c1) THEN c1
     ELSE IF raising(c2) THEN c2
     ELSE IF RLt(f_refl, f_mid)
     THEN LET c3 == call(s2, x_ext)
              s3 == [c3 EXCEPT !.nfe = @ + 1]
          IN IF raising(c3) THEN c3
             ELSE IF RLt(f_ext, f_refl)
             THEN [replace_vertex(s3, i_high, x_ext, f_ext) EXCEPT !.branch = "extend"]
             ELSE [replace_vertex(s3, i_high, x_refl, f_refl) EXCEPT !.branch = "reflect"]
     ELSE IF count_higher(s2, f_refl, 0) <= 1
          THEN LET c3 == call(s2, x_con)
                   s3 == [c3 EXCEPT !.nfe = @ + 1]
               IN IF raising(c3) THEN c3
                  ELSE IF RLt(f_con, f_high)
                  THEN [replace_vertex(s3, i_high, x_con, f_con) EXCEPT !.branch = "contract"]
                  ELSE [contract_about_one_point(s3, i_low) EXCEPT !.branch = "shrink"]
          ELSE [replace_vertex(s2, i_high, x_refl, f_refl) EXCEPT !.branch = "retain"]

\* self.dx *= ratio: numpy multiplies in place, in the object self.dx refers to
scale_dx(s, ratio) ==
  [s EXCEPT !.dx = VScale(ratio, @),
            !.caller_dx = IF s.dx_shared THEN VScale(ratio, @) ELSE @]

RECURSIVE rescale_loop_reevaluates(_, _, _, _)
\* rescale_loop that evaluates f at slot 0 too instead of reusing f_min
rescale_loop_reevaluates(s, x, f_min, i) ==
  IF i > s.N THEN s
  ELSE LET p == IF i = 0 THEN x ELSE [x EXCEPT ![i - 1] = RAdd(@, s.dx[i - 1])]
           s1 == call(s, p)
           s2 == [s1 EXCEPT !.f_list = Append0(@, F(s.f, p))]
           s3 == [s2 EXCEPT !.nfe = @ + 1]
           s4 == [s3 EXCEPT !.vertex_list = Append0(@, p)]
       IN rescale_loop_reevaluates(s4, x, f_min, i + 1)

RECURSIVE rescale_loop(_, _, _, _)
\* for i in range(self.N + 1): ... of rescale
rescale_loop(s, x, f_min, i) ==
  IF i > s.N THEN s
  ELSE IF i = 0
       THEN rescale_loop([s EXCEPT !.f_list = Append0(@, f_min), !.vertex_list = Append0(@, x)],
                         x, f_min, i + 1)
       ELSE LET p == [x EXCEPT ![i - 1] = RAdd(@, s.dx[i - 1])]
                s1 == call(s, p)
                s2 == [s1 EXCEPT !.f_list = Append0(@, F(s.f, p))]
                s3 == [s2 EXCEPT !.nfe = @ + 1]
                s4 == [s3 EXCEPT !.vertex_list = Append0(@, p)]
            IN IF raising(s1) THEN s1 ELSE rescale_loop(s4, x, f_min, i + 1)

\* rescale without "self.nrestarts += 1"
rescale_uncounted(s, ratio) ==
  LET i_min == lowest(s, -1)
      s1 == scale_dx(s, ratio)
      x == get_vertex(s1, i_min)
      f_min == s1.f_list[i_min]
      s2 == [s1 EXCEPT !.vertex_list = Empty, !.f_list = Empty]
  IN rescale_loop(s2, x, f_min, 0)

\* rescale without "self.dx *= ratio"
rescale_unscaled(s, ratio) ==
  LET i_min == lowest(s, -1)
      x == get_vertex(s, i_min)
      f_min == s.f_list[i_min]
      s2 == [s EXCEPT !.vertex_list = Empty, !.f_list = Empty]
      s3 == rescale_loop(s2, x, f_min, 0)
  IN [s3 EXCEPT !.nrestarts = @ + 1]

\* rescale that rebuilds the simplex about slot 0, whichever vertex is lowest
rescale_about_first(s, ratio) ==
  LET s1 == scale_dx(s, ratio)
      x == get_vertex(s1, 0)
      f_min == s1.f_list[0]
      s2 == [s1 EXCEPT !.vertex_list = Empty, !.f_list = Empty]
      s3 == rescale_loop(s2, x, f_min, 0)
  IN [s3 EXCEPT !.nrestarts = @ + 1]

\* rescale that rebuilds the simplex with the old dx and scales dx afterwards
rescale_scaled_after(s, ratio) ==
  LET i_min == lowest(s, -1)
      x == get_vertex(s, i_min)
      f_min == s.f_list[i_min]
      s2 == [s EXCEPT !.vertex_list = Empty, !.f_list = Empty]
      s3 == scale_dx(rescale_loop(s2, x, f_min, 0), ratio)
  IN [s3 EXCEPT !.nrestarts = @ + 1]

rescale(s, ratio) ==
  LET i_min == lowest(s, -1)
      s1 == scale_dx(s, ratio)
      x == get_vertex(s1, i_min)
      f_min == s1.f_list[i_min]
      s2 == [s1 EXCEPT !.vertex_list = Empty, !.f_list = Empty]
      s3 == rescale_loop(s2, x, f_min, 0)
  IN IF raising(s3) THEN s3 ELSE [s3 EXCEPT !.nrestarts = @ + 1]

\* ------------------------------------------------------------ the program
VARIABLES
  args,       \* the caller's arguments of minimize / NMSimplex: f, x, dx, tol, ...
  smplx,      \* the NMSimplex object
  pc,         \* position in minimize ("ops": the caller uses NMSimplex directly)
  converged,  \* minimize's local converged
  k,          \* the loop variable i of "for i in range(n_check)"
  i_best,     \* minimize's locals i_best, x_best, f_best;
  x_best,     \*   bound tells whether they have been assigned
  f_best,
  bound,
  err,        \* the exception that ended the call, "none" if none
  chk,        \* history: the current pass of the while loop (nfe at its start,
              \*   stddev < tol of its check, result of its test_for_minimum)
  nfailed,    \* history: number of confirmations (test_for_minimum) that failed
  last        \* history: the last NMSimplex operation, the object before it, its
              \*   result, its vertex index argument (-1 if it takes none)

vars == <<args, smplx, pc, converged, k, i_best, x_best, f_best, bound, err, chk, nfailed, last>>

\* the object before __init__ has run
NoSimplex ==
  [N |-> 0, vertex_list |-> Empty, f_list |-> Empty, dx |-> Empty, f |-> Callable("flat", 0),
   nfe |-> 0, nrestarts |-> 0, calls |-> 0, evals |-> << >>, branch |-> "none",
   raised |-> "none", caller_x |-> Empty, caller_dx |-> Empty, dx_shared |-> FALSE]

\* the values the arguments are drawn from
Dims == 1..MaxN
SeedVals == {Zero, One}
DxVals == {One, Rat(-1, 2)}
TolVals == {Zero, Half, Rat(4, 1)}
DeltaVals == {Half}

\* dx=None of minimize: numpy.array([0.1]*N)
default_dx(N) == Fill(N, Rat(1, 10))

\* the dx of a call with len(x) = N: N entries, or one fewer or one more
DxChoices(N) ==
  {Fill(N, dv) : dv \in DxVals} \cup {Fill(L, One) : L \in {N - 1, N + 1}}

\* the objectives of degree <= 1: with the 0.1 steps of dx=None their values
\* stay within TLC's 32-bit integers, squares of tenths do not
LinearObjectives == Objectives \ {"test_fun_1", "mixed", "ring"}

\* arguments of a call minimize(f, x, dx, tol, maxfe, n_check, delta) with
\* len(x) = N and the default Kreflect, Kextend, Kcontract
ArgsOfDim(N) ==
  { [f |-> Callable(c.f, 0), x |-> Fill(N, sv), dx_None |-> c.dx_None, dx |-> c.dx,
     tol |-> tol, maxfe |-> maxfe, n_check |-> n_check, delta |-> delta,
     Kreflect |-> One, Kextend |-> Two, Kcontract |-> Half] :
      c \in {[f |-> f, dx_None |-> FALSE, dx |-> d] : f \in Objectives, d \in DxChoices(N)}
            \cup {[f |-> f, dx_None |-> TRUE, dx |-> Empty] : f \in LinearObjectives},
      sv \in SeedVals, tol \in TolVals, maxfe \in 0..MaxFE, n_check \in 0..MaxNCheck,
      delta \in DeltaVals }

MinimizeArgs == UNION {ArgsOfDim(N) : N \in Dims}

NoLast == [op |-> "none", pre |-> NoSimplex, ret |-> FALSE, i |-> -1]
NoChk == [pass_nfe |-> 0, lt |-> FALSE, is_minimum |-> FALSE]

\* entry of minimize(f, x, dx, ...)
Init ==
  /\ args \in MinimizeArgs
  /\ smplx = NoSimplex
  /\ pc = "start"
  /\ converged = FALSE
  /\ k = 0
  /\ i_best = 0
  /\ x_best = Empty
  /\ f_best = Zero
  /\ bound = FALSE
  /\ err = "none"
  /\ chk = NoChk
  /\ nfailed = 0
  /\ last = NoLast

\* lines 98-101: converged = False; N = len(x); dx default; smplx = NMSimplex(x, dx, f)
Construct ==
  /\ pc = "start"
  /\ LET d == IF args.dx_None THEN default_dx(Len0(args.x)) ELSE args.dx
         s == NMSimplex_init(args.x, d, args.f)
     IN /\ smplx' = s
        /\ last' = [op |-> "init", pre |-> NoSimplex, ret |-> FALSE, i |-> -1]
        /\ IF s.raised # "none"
           THEN pc' = "raised" /\ err' = s.raised
           ELSE pc' = "while" /\ err' = err
  /\ converged' = FALSE
  /\ UNCHANGED <<args, k, i_best, x_best, f_best, bound, chk, nfailed>>

\* line 102: while (not converged) and (smplx.nfe < maxfe)
WhileTest ==
  /\ pc = "while"
  /\ IF ~converged /\ smplx.nfe < args.maxfe
     THEN pc' = "for" /\ k' = 0 /\ chk' = [chk EXCEPT !.pass_nfe = smplx.nfe]
     ELSE pc' = "return" /\ k' = k /\ chk' = chk
  /\ UNCHANGED <<args, smplx, converged, i_best, x_best, f_best, bound, err, nfailed, last>>

\* lines 104-105: one pass of the for loop
ForStep ==
  /\ pc = "for"
  /\ k < args.n_check
  /\ LET s == take_a_step(enter(smplx), args.Kreflect, args.Kextend, args.Kcontract)
     IN /\ smplx' = s
        /\ IF raising(s)
           THEN pc' = "raised" /\ err' = s.raised
           ELSE pc' = pc /\ err' = err
  /\ last' = [op |-> "take_a_step", pre |-> smplx, ret |-> FALSE, i |-> -1]
  /\ k' = k + 1
  /\ UNCHANGED <<args, converged, i_best, x_best, f_best, bound, chk, nfailed>>

\* lines 107-113: the for loop is over; best vertex, f_statistics, stddev < tol
Check ==
  /\ pc = "for"
  /\ k >= args.n_check
  /\ i_best' = lowest(smplx, -1)
  /\ x_best' = get_vertex(smplx, i_best')
  /\ f_best' = smplx.f_list[i_best']
  /\ bound' = TRUE
  /\ LET st == f_statistics(smplx)
     IN /\ chk' = [chk EXCEPT !.lt = stddev_lt(st, args.tol), !.is_minimum = FALSE]
        /\ pc' = IF stddev_lt(st, args.tol) THEN "test" ELSE "while"
  /\ UNCHANGED <<args, smplx, converged, k, err, nfailed, last>>

\* line 115: converged = smplx.test_for_minimum(i_best, delta)
Test ==
  /\ pc = "test"
  /\ LET r == test_for_minimum(enter(smplx), i_best, args.delta)
     IN /\ smplx' = r.s
        /\ last' = [op |-> "test_for_minimum", pre |-> smplx, ret |-> r.is_minimum, i |-> i_best]
        /\ IF raising(r.s)
           THEN /\ pc' = "raised" /\ err' = r.s.raised
                /\ UNCHANGED <<converged, chk, nfailed>>
           ELSE /\ converged' = r.is_minimum
                /\ chk' = [chk EXCEPT !.is_minimum = r.is_minimum]
                /\ nfailed' = IF r.is_minimum THEN nfailed ELSE nfailed + 1
                /\ pc' = IF r.is_minimum THEN "while" ELSE "rescale"
                /\ err' = err
  /\ UNCHANGED <<args, k, i_best, x_best, f_best, bound>>

\* line 116: if not converged: smplx.rescale(delta)
Rescale ==
  /\ pc = "rescale"
  /\ LET s == rescale(enter(smplx), args.delta)
     IN /\ smplx' = s
        /\ IF raising(s)
           THEN pc' = "raised" /\ err' = s.raised
           ELSE pc' = "while" /\ err' = err
  /\ last' = [op |-> "rescale", pre |-> smplx, ret |-> FALSE, i |-> -1]
  /\ UNCHANGED <<args, converged, k, i_best, x_best, f_best, bound, chk, nfailed>>

\* line 117: return x_best, f_best, converged, smplx.nfe, smplx.nrestarts;
\* reading a local that was never assigned raises UnboundLocalError
Return ==
  /\ pc = "return"
  /\ IF bound
     THEN pc' = "returned" /\ err' = err
     ELSE pc' = "raised" /\ err' = "UnboundLocalError"
  /\ UNCHANGED <<args, smplx, converged, k, i_best, x_best, f_best, bound, chk, nfailed, last>>

Next == Construct \/ WhileTest \/ ForStep \/ Check \/ Test \/ Rescale \/ Return

Spec == Init /\ [][Next]_vars

\* ------------------------------------------- minimize with an objective that fails
\* largest invocation at which an objective fails
MaxFailAt == 9

\* calls of minimize with an objective that raises at its fail_at-th
\* invocation (or would, if the run got that far)
FailingArgs ==
  { [a EXCEPT !.f = Callable(a.f.name, n)] :
      a \in {b \in MinimizeArgs : /\ b.dx_None \/ Len0(b.dx) = Len0(b.x)
                                  /\ b.tol = Rat(4, 1)
                                  /\ b.maxfe \in {0, MaxFE}
                                  /\ b.n_check >= 1},
      n \in 1..MaxFailAt }

InitFailing ==
  /\ args \in FailingArgs
  /\ smplx = NoSimplex
  /\ pc = "start"
  /\ converged = FALSE
  /\ k = 0
  /\ i_best = 0
  /\ x_best = Empty
  /\ f_best = Zero
  /\ bound = FALSE
  /\ err = "none"
  /\ chk = NoChk
  /\ nfailed = 0
  /\ last = NoLast

SpecFailing == InitFailing /\ [][Next]_vars

\* ------------------------------------------- NMSimplex used directly
\* A caller builds the object and applies its methods in any order, with any
\* vertex index, while nfe is below MaxOpsFE.

\* arguments of NMSimplex(x, dx, f) with len(dx) = len(x); delta is the ratio
\* of rescale and the delta of test_for_minimum
OpsArgs ==
  {a \in MinimizeArgs : /\ ~a.dx_None
                        /\ Len0(a.dx) = Len0(a.x)
                        /\ a.tol = Zero /\ a.maxfe = 0 /\ a.n_check = 0}

\* after smplx = NMSimplex(x, dx, f)
InitOps ==
  /\ args \in OpsArgs
  /\ smplx = NMSimplex_init(args.x, args.dx, args.f)
  /\ pc = "ops"
  /\ converged = FALSE
  /\ k = 0
  /\ i_best = 0
  /\ x_best = Empty
  /\ f_best = Zero
  /\ bound = FALSE
  /\ err = "none"
  /\ chk = NoChk
  /\ nfailed = 0
  /\ last = [op |-> "init", pre |-> NoSimplex, ret |-> FALSE, i |-> -1]

OpTakeAStep ==
  /\ pc = "ops"
  /\ smplx.nfe < MaxOpsFE
  /\ smplx' = take_a_step(enter(smplx), args.Kreflect, args.Kextend, args.Kcontract)
  /\ last' = [op |-> "take_a_step", pre |-> smplx, ret |-> FALSE, i |-> -1]
  /\ UNCHANGED <<args, pc, converged, k, i_best, x_best, f_best, bound, err, chk, nfailed>>

OpContract ==
  /\ pc = "ops"
  /\ smplx.nfe < MaxOpsFE
  /\ \E i_con \in 0..smplx.N :
        /\ smplx' = contract_about_one_point(enter(smplx), i_con)
        /\ last' = [op |-> "contract_about_one_point", pre |-> smplx, ret |-> FALSE, i |-> i_con]
  /\ UNCHANGED <<args, pc, converged, k, i_best, x_best, f_best, bound, err, chk, nfailed>>

OpTest ==
  /\ pc = "ops"
  /\ smplx.nfe < MaxOpsFE
  /\ \E i_min \in 0..smplx.N :
        LET r == test_for_minimum(enter(smplx), i_min, args.delta)
        IN /\ smplx' = r.s
           /\ last' = [op |-> "test_for_minimum", pre |-> smplx, ret |-> r.is_minimum, i |-> i_min]
  /\ UNCHANGED <<args, pc, converged, k, i_best, x_best, f_best, bound, err, chk, nfailed>>

OpRescale ==
  /\ pc = "ops"
  /\ smplx.nfe < MaxOpsFE
  /\ smplx' = rescale(enter(smplx), args.delta)
  /\ last' = [op |-> "rescale", pre |-> smplx, ret |-> FALSE, i |-> -1]
  /\ UNCHANGED <<args, pc, converged, k, i_best, x_best, f_best, bound, err, chk, nfailed>>

NextOps == OpTakeAStep \/ OpContract \/ OpTest \/ OpRescale

SpecOps == InitOps /\ [][NextOps]_vars

\* both uses of the module: minimize, and NMSimplex used directly
InitAll == Init \/ InitOps
NextAll == Next \/ NextOps
SpecAll == InitAll /\ [][NextAll]_vars

\* ------------------------------------------------------------------ claims
N_ == Len0(args.x)
Ended == pc \in {"returned", "raised"}
\* the call was made with a dx of len(x) entries (or with dx=None)
DxFits == args.dx_None \/ Len0(args.dx) = N_
\* the simplex is built: N+1 vertices with their values
Built == pc \notin {"start", "raised"}

\* C1: every call of minimize ends: the while loop cannot run forever because
\* it is bounded by maxfe, that is, every pass of the loop advances nfe towards
\* maxfe.  (The run is deterministic and nothing but f's evaluations changes
\* the simplex, so a pass that leaves nfe as it was is repeated forever.)
C1_EveryPassAdvancesNfe ==
  (pc = "while" /\ bound) => smplx.nfe > chk.pass_nfe

\* C2: when the budget is exhausted right after construction (maxfe <= N+1),
\* minimize returns normally, with converged = false and a best vertex and
\* value taken from the simplex.
C2_ExhaustedBudgetReturns ==
  (DxFits /\ args.maxfe <= N_ + 1 /\ Ended) =>
     /\ pc = "returned"
     /\ ~converged
     /\ \E i \in 0..N_ : /\ x_best = smplx.vertex_list[i]
                         /\ f_best = smplx.f_list[i]
                         /\ \A j \in 0..N_ : ~RLt(smplx.f_list[j], f_best)

\* C3: nfe equals the number of invocations of f made so far: each operation
\* advances it by the number of points it evaluated, never lowers it, and the
\* value minimize returns is the number of invocations of the run.
C3_NfeCountsCalls ==
  /\ smplx.nfe = smplx.calls
  /\ last.op # "none" =>
       /\ smplx.nfe = last.pre.nfe + Len(smplx.evals)
       /\ smplx.nfe >= last.pre.nfe

\* a run of minimize that returned after steps, a failed confirmation and a restart
C3_Witness ==
  /\ pc = "returned"
  /\ smplx.nrestarts >= 1
  /\ args.n_check >= 1
  /\ smplx.nfe > N_ + 1

\* C4: converged is true only if the last check found stddev < tol and
\* test_for_minimum returned true; each check with stddev < tol whose test
\* failed is followed by exactly one rescale before the loop goes on, so
\* nrestarts is the number of failed confirmations.
C4_ConvergedOnlyIfConfirmed ==
  /\ converged => (chk.lt /\ chk.is_minimum)
  /\ pc = "rescale" => (chk.lt /\ ~chk.is_minimum /\ smplx.nrestarts + 1 = nfailed)
  /\ (Built /\ pc # "rescale") => smplx.nrestarts = nfailed
  /\ pc = "test" => chk.lt

\* a run that returned converged after at least one failed confirmation
C4_Witness == pc = "returned" /\ converged /\ nfailed >= 1

\* C5 (as claimed): at the return nfe <= (maxfe - 1) + n_check*(N+3) + 2N.
C5_OvershootClaimed ==
  pc = "returned" =>
     smplx.nfe <= (args.maxfe - 1) + args.n_check * (N_ + 3) + 2 * N_

\* C5 (amended): at the return nfe <= (maxfe - 1) + n_check*(N+3) + 2N + N:
\* the rescale that follows a failed confirmation adds up to N evaluations.
C5_OvershootWithRescale ==
  pc = "returned" =>
     smplx.nfe <= (args.maxfe - 1) + args.n_check * (N_ + 3) + 3 * N_

\* a return whose last pass ran a failed confirmation and its rescale past the
\* claimed bound
C5_Witness ==
  /\ pc = "returned"
  /\ last.op = "rescale"
  /\ smplx.nfe > (args.maxfe - 1) + args.n_check * (N_ + 3) + 2 * N_

\* C6: the returned best_f is the lowest cached value of the simplex at the
\* moment of return: no vertex of the final simplex has a lower value.
C6_ReturnsLowestOfSimplex ==
  pc = "returned" => \A i \in 0..N_ : ~RLt(smplx.f_list[i], f_best)

\* C7: when len(dx) differs from len(x), construction fails before any step;
\* no run goes on with such a dx.
C7_MismatchFailsAtConstruction ==
  (~DxFits /\ pc # "start") => (pc = "raised" /\ smplx.raised # "none")

\* the last operation was take_a_step and its reflection was not below the
\* centroid value; the points it evaluated are x_mid, x_refl and then x_con
StepNotBelowMid ==
  /\ last.op = "take_a_step"
  /\ ~RLt(F(args.f, smplx.evals[2]), F(args.f, smplx.evals[1]))

\* what the contraction/shrink branch and the keep-the-reflection branch of
\* the last take_a_step did, given which of the two was due
StepBranchIs(contraction_due) ==
  LET pre == last.pre
      i_high == highest(pre, -1)
      i_low == lowest(pre, -1)
      f_refl == F(args.f, smplx.evals[2])
  IN IF contraction_due
     THEN /\ Len(smplx.evals) >= 3
          /\ LET x_con == smplx.evals[3]
                 f_con == F(args.f, x_con)
             IN IF RLt(f_con, pre.f_list[i_high])
                THEN /\ smplx.branch = "contract"
                     /\ smplx.vertex_list[i_high] = x_con
                     /\ smplx.f_list[i_high] = f_con
                ELSE /\ smplx.branch = "shrink"
                     /\ smplx.vertex_list[i_low] = pre.vertex_list[i_low]
                     /\ \A i \in (0..N_) \ {i_low} :
                           smplx.vertex_list[i] =
                             VScale(Half, VAdd(pre.vertex_list[i], pre.vertex_list[i_low]))
     ELSE /\ smplx.branch = "retain"
          /\ smplx.vertex_list[i_high] = smplx.evals[2]
          /\ smplx.f_list[i_high] = f_refl

C9_NoStaleValue ==
  Built =>
     /\ DOMAIN smplx.vertex_list = 0..N_
     /\ DOMAIN smplx.f_list = 0..N_
     /\ \A i \in 0..N_ : smplx.f_list[i] = F(args.f, smplx.vertex_list[i])

\* a rescale about a vertex that is not the seed: slot 0 keeps its cached value
C9_Witness ==
  /\ last.op = "rescale"
  /\ smplx.vertex_list[0] # args.x

RECURSIVE RPow(_, _)
RPow(r, n) == IF n = 0 THEN One ELSE RMul(r, RPow(r, n - 1))

\* the dx the simplex was built with
dx0 == IF args.dx_None THEN default_dx(N_) ELSE args.dx

\* C10: rescale(ratio), 0 < ratio < 1, multiplies every component of dx by
\* ratio, so that each gets strictly smaller in magnitude and stays nonzero,
\* and adds 1 to nrestarts; no other operation changes dx or nrestarts; hence
\* dx is the initial dx times ratio^nrestarts.
C10_RescaleScalesDx ==
  /\ last.op = "rescale" =>
       /\ DOMAIN smplx.dx = DOMAIN last.pre.dx
       /\ \A j \in DOMAIN smplx.dx :
             /\ smplx.dx[j] = RMul(last.pre.dx[j], args.delta)
             /\ RLt(RAbs(smplx.dx[j]), RAbs(last.pre.dx[j]))
             /\ smplx.dx[j] # Zero
       /\ smplx.nrestarts = last.pre.nrestarts + 1
  /\ last.op \in {"take_a_step", "contract_about_one_point", "test_for_minimum"} =>
       /\ smplx.dx = last.pre.dx
       /\ smplx.nrestarts = last.pre.nrestarts
  /\ Built => smplx.dx = VScale(RPow(args.delta, smplx.nrestarts), dx0)

\* a second rescale
C10_Witness == last.op = "rescale" /\ smplx.nrestarts >= 2

\* C11: minimize never mutates the caller's seed or dx: once the simplex is
\* built and after every operation of the run, rescale and shrink included,
\* the arrays the caller passed hold the values they had at the call.
C11_CallerArraysUntouched ==
  Built =>
     /\ smplx.caller_x = args.x
     /\ ~args.dx_None => smplx.caller_dx = args.dx

\* a run that returned after a rescale: the simplex's dx has moved away from
\* the dx the caller passed
C11_Witness ==
  /\ pc = "returned"
  /\ ~args.dx_None
  /\ smplx.nrestarts >= 1
  /\ smplx.dx # args.dx

\* the n-th point (n = 1..2N) test_for_minimum(i, delta) probes on simplex s:
\* axis j = (n-1) div 2, x_min + dx[j]*delta for odd n, x_min - dx[j]*delta
\* for even n
ProbePoint(s, i, delta, n) ==
  LET j == (n - 1) \div 2
      d == RMul(s.dx[j], delta)
  IN [s.vertex_list[i] EXCEPT ![j] = IF n % 2 = 1 THEN RAdd(@, d) ELSE RSub(@, d)]

\* C12: test_for_minimum(i_min, delta) probes, axis by axis in ascending
\* order, x_min + dx[j]*delta and then x_min - dx[j]*delta; it returns false
\* at the first probe strictly below f_min and evaluates no later probe; it
\* returns true only after all 2N probes, none below f_min; it changes nfe
\* only: vertex_list, f_list and dx are as before.
C12_ProbesAndShortCircuit ==
  last.op = "test_for_minimum" =>
     LET pre == last.pre
         f_min == pre.f_list[last.i]
         n == Len(smplx.evals)
     IN /\ n >= 1 /\ n <= 2 * N_
        /\ \A m \in 1..n : smplx.evals[m] = ProbePoint(pre, last.i, args.delta, m)
        /\ \A m \in 1..(n - 1) : ~RLt(F(args.f, smplx.evals[m]), f_min)
        /\ last.ret <=> ~RLt(F(args.f, smplx.evals[n]), f_min)
        /\ last.ret => n = 2 * N_
        /\ smplx.nfe = pre.nfe + n
        /\ smplx.vertex_list = pre.vertex_list
        /\ smplx.f_list = pre.f_list
        /\ smplx.dx = pre.dx
        /\ smplx.nrestarts = pre.nrestarts

\* a test that failed at the first probe of the second axis, after both
\* probes of the first axis were not below f_min
C12_Witness ==
  /\ last.op = "test_for_minimum"
  /\ ~last.ret
  /\ Len(smplx.evals) = 3

\* i is the smallest index other than exclude whose cached value is the
\* minimum (maximum) of the cached values of the slots other than exclude
IsFirstLowest(s, exclude, i) ==
  /\ i \in (0..s.N) \ {exclude}
  /\ \A j \in (0..s.N) \ {exclude} : ~RLt(s.f_list[j], s.f_list[i])
  /\ \A j \in (0..(i - 1)) \ {exclude} : s.f_list[j] # s.f_list[i]

IsFirstHighest(s, exclude, i) ==
  /\ i \in (0..s.N) \ {exclude}
  /\ \A j \in (0..s.N) \ {exclude} : ~RLt(s.f_list[i], s.f_list[j])
  /\ \A j \in (0..(i - 1)) \ {exclude} : s.f_list[j] # s.f_list[i]

\* C13: on every simplex the program builds, for every exclude (none, or any
\* slot, slot 0 included), lowest(exclude) is the smallest index other than
\* exclude holding the minimum of the other slots' cached values and
\* highest(exclude) the smallest one holding their maximum: among exact ties
\* the first index wins.  Neither writes to the object, so a second call
\* returns the same index.
C13_FirstIndexWins ==
  Built =>
     \A exclude \in -1..N_ :
        /\ IsFirstLowest(smplx, exclude, lowest(smplx, exclude))
        /\ IsFirstHighest(smplx, exclude, highest(smplx, exclude))

\* after a step (which called lowest() and highest()) slots 0 and 1 tie for
\* the lowest value: lowest() answers 0, and excluding slot 0 moves the answer
\* to slot 1
C13_Witness ==
  /\ last.op = "take_a_step"
  /\ N_ = 2
  /\ smplx.f_list[0] = smplx.f_list[1]
  /\ RLt(smplx.f_list[0], smplx.f_list[2])
  /\ lowest(smplx, -1) = 0
  /\ lowest(smplx, 0) = 1

\* C14: a take_a_step call that does not shrink changes exactly one slot,
\* the worst one (i_high), which gets a point the call evaluated, and leaves
\* the vertex and cached value of every other slot as they were; a call that
\* shrinks leaves the slot of the lowest vertex (i_low) as it was and replaces
\* every other vertex by the midpoint between it and the lowest vertex.
C14_StepFrame ==
  last.op = "take_a_step" =>
     LET pre == last.pre
         i_high == highest(pre, -1)
         i_low == lowest(pre, -1)
     IN IF smplx.branch # "shrink"
        THEN /\ \A i \in (0..N_) \ {i_high} :
                   /\ smplx.vertex_list[i] = pre.vertex_list[i]
                   /\ smplx.f_list[i] = pre.f_list[i]
             /\ smplx.vertex_list[i_high] # pre.vertex_list[i_high]
             /\ \E m \in 2..Len(smplx.evals) :
                   /\ smplx.vertex_list[i_high] = smplx.evals[m]
                   /\ smplx.f_list[i_high] = F(args.f, smplx.evals[m])
        ELSE /\ smplx.vertex_list[i_low] = pre.vertex_list[i_low]
             /\ smplx.f_list[i_low] = pre.f_list[i_low]
             /\ \A i \in (0..N_) \ {i_low} :
                   LET p == VAdd(VScale(Half, pre.vertex_list[i]),
                                 VScale(Half, pre.vertex_list[i_low]))
                   IN /\ smplx.vertex_list[i] = p
                      /\ smplx.f_list[i] = F(args.f, p)

\* a step of a 2-dimensional run that shrank the simplex
C14_Witness ==
  /\ last.op = "take_a_step"
  /\ smplx.branch = "shrink"
  /\ N_ = 2

\* the objective's failing invocation has been made
FailedCall == args.f.fail_at >= 1 /\ smplx.calls >= args.f.fail_at

\* C15: if the objective fails on a call, minimize aborts at that call with
\* that failure: no further call of f is made (the failing call is the last
\* one, so there is no retry), and no result is returned.
C15_FailureAborts ==
  /\ FailedCall =>
       /\ pc = "raised"
       /\ err = "ObjectiveFunctionFailure"
       /\ smplx.calls = args.f.fail_at
       /\ smplx.evals # << >>
  /\ pc = "returned" => ~FailedCall
  /\ err = "ObjectiveFunctionFailure" => FailedCall

\* the objective failed during the rescale that followed a failed confirmation
C15_Witness ==
  /\ pc = "raised"
  /\ err = "ObjectiveFunctionFailure"
  /\ last.op = "rescale"
  /\ nfailed >= 1

\* C17: rescale(ratio) rebuilds the simplex around the lowest vertex b (the
\* index lowest() gives): afterwards slot 0 holds b with the value cached for
\* it, f was not invoked on it, slot i (1..N) holds b with axis i-1
\* incremented by the already scaled dx[i-1] and the value of f there, and nfe
\* has grown by exactly N.
C17_RescaleRebuildsAroundLowest ==
  last.op = "rescale" =>
     LET pre == last.pre
         i_b == lowest(pre, -1)
         b == pre.vertex_list[i_b]
     IN /\ smplx.vertex_list[0] = b
        /\ smplx.f_list[0] = pre.f_list[i_b]
        /\ Len(smplx.evals) = N_
        /\ \A i \in 1..N_ :
              LET p == [b EXCEPT ![i - 1] = RAdd(@, RMul(pre.dx[i - 1], args.delta))]
              IN /\ smplx.dx[i - 1] = RMul(pre.dx[i - 1], args.delta)
                 /\ smplx.vertex_list[i] = p
                 /\ smplx.f_list[i] = F(args.f, p)
                 /\ smplx.evals[i] = p
        /\ smplx.nfe = pre.nfe + N_

\* a rescale of a 2-dimensional simplex whose lowest vertex was not in slot 0
C17_Witness ==
  /\ last.op = "rescale"
  /\ N_ = 2
  /\ lowest(last.pre, -1) >= 1

\* C18: in every take_a_step call that does not shrink, the value installed in
\* the worst slot is strictly lower than the worst value it replaces,
\* whichever of extension, reflection or contraction is accepted.
C18_AcceptedPointImproves ==
  (last.op = "take_a_step" /\ smplx.branch # "shrink") =>
     LET i_high == highest(last.pre, -1)
     IN RLt(smplx.f_list[i_high], last.pre.f_list[i_high])

\* the lowest cached value of simplex s
MinF(s) == s.f_list[lowest(s, -1)]

\* C19: the lowest cached value of the simplex never increases: after a
\* take_a_step, a test_for_minimum, a rescale, or a contract_about_one_point
\* about a vertex holding the lowest value, min(f_list) is at most what it was
\* before the operation (and so, by transitivity, before any sequence of them).
C19_LowestNeverIncreases ==
  (\/ last.op \in {"take_a_step", "test_for_minimum", "rescale"}
   \/ /\ last.op = "contract_about_one_point"
      /\ last.pre.f_list[last.i] = MinF(last.pre))
  => ~RLt(MinF(last.pre), MinF(smplx))

\* a step that did not shrink and replaced the very slot lowest() named: all
\* values tied, so the highest and the lowest index were the same
C19_Witness ==
  /\ last.op = "take_a_step"
  /\ smplx.branch # "shrink"
  /\ highest(last.pre, -1) = lowest(last.pre, -1)

\* C20: whenever minimize returns, the returned pair is consistent and no
\* worse than the start: best_f = f(best_x), and best_f <= f(seed).
C20_ReturnedPairConsistent ==
  pc = "returned" =>
     /\ f_best = F(args.f, x_best)
     /\ ~RLt(F(args.f, args.x), f_best)

\* a return, after a restart, of a point strictly better than the seed
C20_Witness ==
  /\ pc = "returned"
  /\ smplx.nrestarts >= 1
  /\ x_best # args.x
  /\ RLt(f_best, F(args.f, args.x))

\* C21: every take_a_step call makes at least 2 and at most N+3 evaluations
\* of the objective: exactly 2 when the reflection is accepted outright,
\* exactly 3 when an extension or an accepted contraction is tried, exactly
\* N+3 when the call shrinks the simplex; construction makes exactly N+1.
C21_EvaluationsPerCall ==
  /\ last.op = "take_a_step" =>
       LET n == Len(smplx.evals)
       IN /\ smplx.nfe = last.pre.nfe + n
          /\ smplx.calls = last.pre.calls + n
          /\ n >= 2 /\ n <= N_ + 3
          /\ smplx.branch \in {"retain", "extend", "reflect", "contract", "shrink"}
          /\ smplx.branch = "retain" => n = 2
          /\ smplx.branch \in {"extend", "reflect", "contract"} => n = 3
          /\ smplx.branch = "shrink" => n = N_ + 3
  /\ (last.op = "init" /\ Built) =>
       /\ smplx.nfe = N_ + 1
       /\ smplx.calls = N_ + 1
       /\ Len(smplx.evals) = N_ + 1

\* a step that accepted the reflection outright, with 2 evaluations, in a
\* simplex that an earlier operation had already changed
C21_Witness ==
  /\ last.op = "take_a_step"
  /\ smplx.branch = "retain"
  /\ last.pre.nfe > N_ + 1
  /\ Len(smplx.evals) = 2

====
